---- MODULE Spec2Model ----
(***************************************************************************)
(* A model of the tilemap editor: the two-layer grid (tilemap.rs), the     *)
(* storage codec (save.rs), the tile selector (tileselector.rs), the map   *)
(* viewer with its pointer state machine (mapviewer.rs) and the editor's   *)
(* message handler (main.rs).                                              *)
(*                                                                         *)
(* A Vec is a sequence; the u16 index i of the code is position i + 1.     *)
(* A panic (index out of bounds, unwrap on Err, checked overflow) aborts   *)
(* the program: pure operators return Panic, the state machines set their  *)
(* panic flag and stop.                                                    *)
(***************************************************************************)
EXTENDS Integers, Sequences, FiniteSets, Bags, TLC

\* ------------------------------------------------------------------ bounds
\* Largest width / height of a grid built through the TileMap API.
MaxDim == 2
\* Number of set_tile / resize / encode / decode calls made on one TileMap.
MaxOps == 3

\* Largest cell coordinate the pointer is moved to.
MaxCursor == 1
\* Largest palette index clicked in the tile selector.
MaxIndex == 2
\* Number of user inputs (button clicks, palette clicks, pointer events) in a run.
MaxEvents == 4

\* ------------------------------------------------------- program constants
\* One past the largest u16.
U16 == 65536

\* ------------------------------------------------------------------ values
\* Option<T>: None is the empty tuple, Some(v) the one-element tuple.
None == <<>>
Some(v) == <<v>>
\* The outcome of a call that may panic.
Ok(v) == [ok |-> TRUE, v |-> v]
Panic == [ok |-> FALSE]

Tile_new(value, h_flip, v_flip) == [value |-> value, h_flip |-> h_flip, v_flip |-> v_flip]

LayerBackground == "Background"
LayerForeground == "Foreground"
Layer_ALL == {LayerBackground, LayerForeground}

Min(a, b) == IF a < b THEN a ELSE b
Abs(a) == IF a < 0 THEN 0 - a ELSE a

\* Vec::truncate(n): keeps the first n elements, no effect when n >= len.
Truncate(s, n) == SubSeq(s, 1, Min(n, Len(s)))
\* iter::repeat(v).take(n) collected into a Vec.
Repeat(v, n) == [i \in 1..n |-> v]

\* ------------------------------------------------- Vec<Vec<Option<Tile>>>
\* The vector of vectors is held as the lengths of its inner vectors (lens, one
\* per outer index) and its Some entries (at, keyed by <<outer, inner>> index,
\* both from 0); every other entry within the lengths is None.
Tiles_repeat(inner_len, outer_len) ==
    [lens |-> Repeat(inner_len, outer_len), at |-> [c \in {} |-> None]]

\* t[i][j] is within both vectors.
Tiles_index_ok(t, i, j) ==
    /\ i < Len(t.lens)
    /\ j < t.lens[i + 1]

\* t[i][j]
Tiles_get(t, i, j) == IF <<i, j>> \in DOMAIN t.at THEN t.at[<<i, j>>] ELSE None

\* t[i][j] = value
Tiles_set(t, i, j, value) ==
    [t EXCEPT !.at =
        IF value = None
        THEN [c \in (DOMAIN t.at) \ {<<i, j>>} |-> t.at[c]]
        ELSE [c \in (DOMAIN t.at) \cup {<<i, j>>} |-> IF c = <<i, j>> THEN value ELSE t.at[c]]]

\* t.extend(repeat(vec![None; inner_len]).take(n))
Tiles_extend(t, inner_len, n) == [t EXCEPT !.lens = @ \o Repeat(inner_len, n)]

\* t.truncate(n)
Tiles_truncate(t, n) ==
    [lens |-> Truncate(t.lens, n),
     at |-> [c \in {d \in DOMAIN t.at : d[1] < n} |-> t.at[c]]]

\* for row in &mut t[..] { row.extend(repeat(None).take(n)) }
Tiles_extend_each(t, n) == [t EXCEPT !.lens = [i \in 1..Len(t.lens) |-> t.lens[i] + n]]

\* for row in &mut t[..] { row.truncate(n) }
Tiles_truncate_each(t, n) ==
    [lens |-> [i \in 1..Len(t.lens) |-> Min(t.lens[i], n)],
     at |-> [c \in {d \in DOMAIN t.at : d[2] < n} |-> t.at[c]]]

\* ------------------------------------------------------------ LayerContent
LayerContent_new(width, height) ==
    [width |-> width, height |-> height, tiles |-> Tiles_repeat(height, width)]

\* self.tiles[x][y]: both indexings are bounds-checked by Vec.
LayerContent_index_ok(l, x, y) == Tiles_index_ok(l.tiles, x, y)

\* Mutant: the two indices exchanged.
LayerContent_set_tile_transposed(l, x, y, value) ==
    IF LayerContent_index_ok(l, y, x)
    THEN Ok([l EXCEPT !.tiles = Tiles_set(@, y, x, value)])
    ELSE Panic

LayerContent_set_tile(l, x, y, value) ==
    IF LayerContent_index_ok(l, x, y)
    THEN Ok([l EXCEPT !.tiles = Tiles_set(@, x, y, value)])
    ELSE Panic

LayerContent_get_tile(l, x, y) ==
    IF LayerContent_index_ok(l, x, y) THEN Ok(Tiles_get(l.tiles, x, y)) ELSE Panic

\* The height is applied to the outer vector, then the width to the inner ones.
LayerContent_resize(l, new_width, new_height) ==
    LET t1 == IF new_height > l.height
              THEN Tiles_extend(l.tiles, new_width, new_height - l.height)
              ELSE Tiles_truncate(l.tiles, new_height)
        t2 == IF new_width > l.width
              THEN Tiles_extend_each(t1, new_width - l.width)
              ELSE Tiles_truncate_each(t1, new_width)
    IN  [width |-> new_width, height |-> new_height, tiles |-> t2]

\* ----------------------------------------------------------------- TileMap
TileMap_new(width, height) ==
    [background |-> LayerContent_new(width, height),
     foreground |-> LayerContent_new(width, height)]

TileMap_set_tile(m, x, y, value, layer) ==
    IF layer = LayerBackground
    THEN LET b == LayerContent_set_tile(m.background, x, y, value)
         IN  IF b.ok THEN Ok([m EXCEPT !.background = b.v]) ELSE Panic
    ELSE LET f == LayerContent_set_tile(m.foreground, x, y, value)
         IN  IF f.ok THEN Ok([m EXCEPT !.foreground = f.v]) ELSE Panic

\* The pair (background, foreground) of one cell.
TileMap_get_tile(m, x, y) ==
    LET b == LayerContent_get_tile(m.background, x, y)
        f == LayerContent_get_tile(m.foreground, x, y)
    IN  IF b.ok /\ f.ok THEN Ok(<<b.v, f.v>>) ELSE Panic

TileMap_resize(m, new_width, new_height) ==
    [background |-> LayerContent_resize(m.background, new_width, new_height),
     foreground |-> LayerContent_resize(m.foreground, new_width, new_height)]

TileMap_get_dimensions(m) == <<m.background.width, m.background.height>>

\* ------------------------------------------------------------------- codec
\* u16 arithmetic: a build with overflow checks panics on overflow, a build
\* without them wraps.
Mul16(a, b, checks) ==
    IF a * b < U16 THEN Ok(a * b) ELSE IF checks THEN Panic ELSE Ok((a * b) % U16)

Add16(a, b, checks) ==
    IF a + b < U16 THEN Ok(a + b) ELSE IF checks THEN Panic ELSE Ok((a + b) % U16)

\* (x + y * width) as usize, the position of cell (x, y) in a flattened layer.
FlatIndex(x, y, width, checks) ==
    LET p == Mul16(y, width, checks)
    IN  IF p.ok THEN Add16(x, p.v, checks) ELSE Panic

\* Every get_tile(x, y) with x < width and y < height succeeds.  A Vec checks
\* an index against its length, so column x reads up to row height - 1 exactly
\* when the read of row height - 1 succeeds.
Encode_reads_ok(m, width, height) ==
    \A x \in 0..(width - 1) : height = 0 \/ TileMap_get_tile(m, x, height - 1).ok

\* The conversion runs to its end: neither width * height nor a read panics.
Encode_ok(m, checks) ==
    /\ Mul16(TileMap_get_dimensions(m)[1], TileMap_get_dimensions(m)[2], checks).ok
    /\ Encode_reads_ok(m, TileMap_get_dimensions(m)[1], TileMap_get_dimensions(m)[2])

\* impl From<TileMap> for TileMapStorage: y is the outer loop, x the inner
\* one, each cell is pushed on both sequences; the k-th push is cell
\* ((k - 1) % width, (k - 1) \div width).
Encode(m, checks) ==
    LET width == TileMap_get_dimensions(m)[1]
        height == TileMap_get_dimensions(m)[2]
        cell(k) == TileMap_get_tile(m, (k - 1) % width, (k - 1) \div width)
    IN  IF Encode_ok(m, checks)
        THEN Ok([width |-> width, height |-> height,
                 background |-> [tiles |-> [k \in 1..(width * height) |-> cell(k).v[1]]],
                 foreground |-> [tiles |-> [k \in 1..(width * height) |-> cell(k).v[2]]]])
        ELSE Panic

\* layer.tiles[(x + y * width) as usize] for one cell.
StorageLayer_read(layer, x, y, width, checks) ==
    LET i == FlatIndex(x, y, width, checks)
    IN  IF i.ok /\ i.v < Len(layer.tiles) THEN Ok(layer.tiles[i.v + 1]) ELSE Panic

\* One layer of the decoded map: LayerContent::new(width, height), then cell
\* (x, y) is set to the entry read for it, for every x < width and y < height.
Decode_layer(layer, width, height, checks) ==
    LET cells == {c \in (0..(width - 1)) \X (0..(height - 1)) :
                     StorageLayer_read(layer, c[1], c[2], width, checks).v # None}
    IN  [LayerContent_new(width, height) EXCEPT
            !.tiles.at = [c \in cells |-> StorageLayer_read(layer, c[1], c[2], width, checks).v]]

\* impl From<TileMapStorage> for TileMap: TileMap::new(width, height), then one
\* set_tile per cell and layer; any failed read panics.
Decode(st, checks) ==
    IF \A x \in 0..(st.width - 1), y \in 0..(st.height - 1) :
          /\ StorageLayer_read(st.background, x, y, st.width, checks).ok
          /\ StorageLayer_read(st.foreground, x, y, st.width, checks).ok
    THEN Ok([background |-> Decode_layer(st.background, st.width, st.height, checks),
             foreground |-> Decode_layer(st.foreground, st.width, st.height, checks)])
    ELSE Panic

\* ------------------------------------------------------------ TileSelector
\* The tile source (AsepriteFile) is modelled by its number of frames; the
\* shared cell `tiles` is None until a source is loaded.
AsepriteFile(n) == [num_frames |-> n]

TileSelector_new == [selected |-> None]

\* Mutant: the index one past the last frame is accepted.
TileSelector_select_inclusive(ts, tiles, i) ==
    IF tiles # None /\ i <= tiles[1].num_frames
    THEN [ts EXCEPT !.selected = Some(i)]
    ELSE ts

TileSelector_select(ts, tiles, i) ==
    IF tiles # None /\ i < tiles[1].num_frames
    THEN [ts EXCEPT !.selected = Some(i)]
    ELSE ts

TileSelector_unselect(ts) == [ts EXCEPT !.selected = None]

\* Mutant: the selection survives the reset.
TileSelector_reset_keeping(ts) == ts

TileSelector_reset(ts) == [ts EXCEPT !.selected = None]

\* The getter main.rs calls; the selection as stored.
TileSelector_get_selected(ts) == ts.selected

\* --------------------------------------------------------------- MapViewer
\* Side of the default map.
DefaultSide == 32

ToolPen == "Pen"
ToolRect == "Rect"
ToolSelection == "Selection"
Tools == {ToolPen, ToolRect, ToolSelection}

\* cache: None when cleared, Some(frame) once drawn.  touched is history: the
\* cells passed to set_tile since the current message was taken up.
MapViewer_new ==
    [modified |-> FALSE, map |-> TileMap_new(DefaultSide, DefaultSide), tile |-> None,
     cache |-> None, tool |-> ToolPen, touched |-> {}]

\* Mutant: the cache is not cleared.
MapViewer_set_tile_cached(mv, x, y, value) ==
    LET m == TileMap_set_tile(mv.map, x, y, value, LayerBackground)
    IN  IF m.ok
        THEN Ok([mv EXCEPT !.modified = TRUE, !.map = m.v,
                           !.touched = @ \cup {<<x, y>>}])
        ELSE Panic

MapViewer_set_tile(mv, x, y, value) ==
    LET m == TileMap_set_tile(mv.map, x, y, value, LayerBackground)
    IN  IF m.ok
        THEN Ok([mv EXCEPT !.modified = TRUE, !.map = m.v, !.cache = None,
                           !.touched = @ \cup {<<x, y>>}])
        ELSE Panic

MapViewer_get_tile(mv, x, y, layer) ==
    LET t == TileMap_get_tile(mv.map, x, y)
    IN  IF t.ok THEN Ok(t.v[IF layer = LayerBackground THEN 1 ELSE 2]) ELSE Panic

\* x as u16 for an i32 x.
ToU16(x) == x % U16

\* The loops of fill_rect from their k-th iteration on: x is the outer loop over
\* width cells from min_x, y the inner loop over height cells from min_y.
RECURSIVE FillRect_from(_, _, _, _, _, _)
FillRect_from(mv, min_x, min_y, width, height, k) ==
    IF k >= width * height
    THEN Ok(mv)
    ELSE LET r == MapViewer_set_tile(mv, ToU16(min_x + (k \div height)),
                                     ToU16(min_y + (k % height)), mv.tile)
         IN  IF r.ok THEN FillRect_from(r.v, min_x, min_y, width, height, k + 1) ELSE Panic

\* Mutant: the rectangle always starts on the anchor.
MapViewer_fill_rect_from_anchor(mv, x, y, width, height) ==
    FillRect_from(mv, x, y, Abs(width), Abs(height), 0)

MapViewer_fill_rect(mv, x, y, width, height) ==
    LET min_x == Min(x, x + width)
        min_y == Min(y, y + height)
    IN  FillRect_from(mv, min_x, min_y, Abs(width), Abs(height), 0)

MapViewer_refresh(mv) == [mv EXCEPT !.cache = None]

MapViewer_get_map_instant(mv) == mv.map

MapViewer_set_entire_map(mv, map) ==
    [mv EXCEPT !.map = map, !.modified = FALSE, !.cache = None]

\* ViewerState, the widget state iced keeps for the canvas.
InteractionNone == <<"None">>
InteractionDrawing == <<"Drawing">>
InteractionErasing == <<"Erasing">>
InteractionRectangle(x, y) == <<"Rectangle", x, y>>

ViewerState_default == [interaction |-> InteractionNone, rect_dimensions |-> <<0, 0>>]

\* Canvas events and mouse buttons.
ButtonLeft == "Left"
ButtonRight == "Right"
ButtonMiddle == "Middle"
EvReleased == <<"ButtonReleased">>
EvPressed(button) == <<"ButtonPressed", button>>
EvMoved == <<"CursorMoved">>
EvOther == <<"Other">>

\* The closure `length` of the CursorMoved arm.
length(a, b) == LET sub == a - b IN sub + (IF sub >= 0 THEN 1 ELSE 0)

\* Mutant: a move during a rectangle paints the cell under the pointer.
MapViewer_update_painting(mv, state, event, cursor) ==
    LET out(st, msg) == [state |-> st, message |-> msg]
    IN
    IF cursor = None THEN out(state, None)
    ELSE
    LET x == cursor[1][1]
        y == cursor[1][2]
    IN
    CASE event[1] = "ButtonReleased" ->
            IF state.interaction[1] = "Rectangle"
            THEN out([state EXCEPT !.interaction = InteractionNone],
                     Some(<<"PaintRect", state.interaction[2], state.interaction[3],
                            state.rect_dimensions[1], state.rect_dimensions[2]>>))
            ELSE out([state EXCEPT !.interaction = InteractionNone], None)
      [] event[1] = "ButtonPressed" ->
            IF event[2] = ButtonLeft
            THEN IF mv.tool = ToolPen
                 THEN out([state EXCEPT !.interaction = InteractionDrawing],
                          Some(<<"PaintTile", x, y>>))
                 ELSE IF mv.tool = ToolRect
                 THEN out([interaction |-> InteractionRectangle(x, y),
                           rect_dimensions |-> <<1, 1>>],
                          Some(<<"RectStarted">>))
                 ELSE out(state, None)
            ELSE IF event[2] = ButtonRight
            THEN out([state EXCEPT !.interaction = InteractionErasing],
                     Some(<<"ClearTile", x, y>>))
            ELSE out(state, None)
      [] event[1] = "CursorMoved" ->
            IF state.interaction = InteractionDrawing
            THEN out(state, Some(<<"PaintTile", x, y>>))
            ELSE IF state.interaction = InteractionErasing
            THEN out(state, Some(<<"ClearTile", x, y>>))
            ELSE IF state.interaction[1] = "Rectangle"
            THEN out([state EXCEPT !.rect_dimensions =
                         <<length(x, state.interaction[2]), length(y, state.interaction[3])>>],
                     Some(<<"PaintTile", x, y>>))
            ELSE out(state, None)
      [] OTHER -> out(state, None)

\* canvas::Program::update: cursor is None when the pointer is outside the
\* canvas, else Some(<<x, y>>), the cell under it.  Returns the new widget state
\* and the message emitted, if any.
MapViewer_update(mv, state, event, cursor) ==
    LET out(st, msg) == [state |-> st, message |-> msg]
    IN
    IF cursor = None THEN out(state, None)
    ELSE
    LET x == cursor[1][1]
        y == cursor[1][2]
    IN
    CASE event[1] = "ButtonReleased" ->
            IF state.interaction[1] = "Rectangle"
            THEN out([state EXCEPT !.interaction = InteractionNone],
                     Some(<<"PaintRect", state.interaction[2], state.interaction[3],
                            state.rect_dimensions[1], state.rect_dimensions[2]>>))
            ELSE out([state EXCEPT !.interaction = InteractionNone], None)
      [] event[1] = "ButtonPressed" ->
            IF event[2] = ButtonLeft
            THEN IF mv.tool = ToolPen
                 THEN out([state EXCEPT !.interaction = InteractionDrawing],
                          Some(<<"PaintTile", x, y>>))
                 ELSE IF mv.tool = ToolRect
                 THEN out([interaction |-> InteractionRectangle(x, y),
                           rect_dimensions |-> <<1, 1>>],
                          Some(<<"RectStarted">>))
                 ELSE out(state, None)
            ELSE IF event[2] = ButtonRight
            THEN out([state EXCEPT !.interaction = InteractionErasing],
                     Some(<<"ClearTile", x, y>>))
            ELSE out(state, None)
      [] event[1] = "CursorMoved" ->
            IF state.interaction = InteractionDrawing
            THEN out(state, Some(<<"PaintTile", x, y>>))
            ELSE IF state.interaction = InteractionErasing
            THEN out(state, Some(<<"ClearTile", x, y>>))
            ELSE IF state.interaction[1] = "Rectangle"
            THEN out([state EXCEPT !.rect_dimensions =
                         <<length(x, state.interaction[2]), length(y, state.interaction[3])>>],
                     Some(<<"Redraw">>))
            ELSE out(state, None)
      [] OTHER -> out(state, None)

\* The cells the preview loop of draw passes to draw_tile.
PreviewCells(mv, state) ==
    IF state.interaction[1] = "Rectangle" /\ mv.tile # None
    THEN LET min_x == Min(state.interaction[2], state.interaction[2] + state.rect_dimensions[1])
             min_y == Min(state.interaction[3], state.interaction[3] + state.rect_dimensions[2])
         IN  {<<ToU16(x), ToU16(y)>> :
                 x \in min_x..(min_x + Abs(state.rect_dimensions[1]) - 1),
                 y \in min_y..(min_y + Abs(state.rect_dimensions[2]) - 1)}
    ELSE {}

\* What the closure of draw rasterizes: the map against the tile source, and,
\* when a source is loaded, the preview rectangle.
MapViewer_rasterize(mv, tiles, state) ==
    [map |-> mv.map, tiles |-> tiles,
     preview |-> IF tiles # None THEN PreviewCells(mv, state) ELSE {}]

\* canvas::Program::draw: the cache runs the closure only when it is cleared.
MapViewer_draw(mv, tiles, state) ==
    IF mv.cache = None
    THEN [mv EXCEPT !.cache = Some(MapViewer_rasterize(mv, tiles, state))]
    ELSE mv

\* ----------------------------------------------------------- TilemapEditor
Inactive == "Inactive"
NewMap == "NewMap"
OpeningMap == "OpeningMap"
SavingMap == "SavingMap"
LoadingTiles == "LoadingTiles"
Error == "Error"

LoadingState_inactive(ls) == ls = Inactive
LoadingState_active(ls) == ~LoadingState_inactive(ls)
\* Mutant: the Error state is never recognised.
LoadingState_never_error(ls) == FALSE

LoadingState_is_error(ls) == ls = Error

\* Application::new.
TilemapEditor_new ==
    [tiles_file |-> None, loading_state |-> Inactive, tile_selector |-> TileSelector_new,
     tiles |-> None, map_viewer |-> MapViewer_new]

\* The futures handed to Command::perform, with the arguments they capture.
Task_new_map(modified) == [kind |-> "new_map", param |-> modified]
Task_open_map(modified) == [kind |-> "open_map", param |-> modified]
Task_save_map(map) == [kind |-> "save_map", param |-> map]
Task_open_tiles(has_a_file) == [kind |-> "open_tiles", param |-> has_a_file]
Task_error == [kind |-> "error", param |-> FALSE]

\* A map file on disk: whether fs::read succeeds, and the TileMapStorage its
\* text parses to (None when it is not a RON TileMapStorage).
MapFile(readable, content) == [readable |-> readable, content |-> content]

\* load_from_file: an unreadable file is an Err, a text that does not parse
\* panics in unwrap, and the conversion of the record may panic.
load_from_file(file, checks) ==
    IF ~file.readable THEN Ok([is_ok |-> FALSE])
    ELSE IF file.content = None THEN Panic
    ELSE LET m == Decode(file.content[1], checks)
         IN  IF m.ok THEN Ok([is_ok |-> TRUE, map |-> m.v]) ELSE Panic

\* A tile file on disk: the AsepriteFile it parses to, None when it does not.
TileFile(name, parsed) == [name |-> name, parsed |-> parsed]

\* What update returns: the editor and the command to perform, if any.
Done(ed, cmd) == Ok([ed |-> ed, cmd |-> cmd])

Update_NewMap(ed) ==
    Done([ed EXCEPT !.loading_state = NewMap], Some(Task_new_map(ed.map_viewer.modified)))

Update_CreateNewMap(ed, create) ==
    LET e1 == [ed EXCEPT !.loading_state = Inactive]
    IN  IF create
        THEN Done([e1 EXCEPT !.map_viewer =
                       MapViewer_set_entire_map(@, TileMap_new(DefaultSide, DefaultSide))], None)
        ELSE Done(e1, None)

Update_OpenMap(ed) ==
    IF LoadingState_active(ed.loading_state)
    THEN Done(ed, None)
    ELSE Done([ed EXCEPT !.loading_state = OpeningMap],
              Some(Task_open_map(ed.map_viewer.modified)))

Update_MapOpened(ed, new_map_file, checks) ==
    LET e1 == [ed EXCEPT !.loading_state = Inactive]
    IN  IF new_map_file = None
        THEN Done(e1, None)
        ELSE LET new_map == load_from_file(new_map_file[1], checks)
             IN  IF ~new_map.ok THEN Panic
                 ELSE IF new_map.v.is_ok
                 THEN Done([e1 EXCEPT !.map_viewer =
                                MapViewer_set_entire_map(@, new_map.v.map)], None)
                 ELSE Done([e1 EXCEPT !.loading_state = Error], Some(Task_error))

Update_SaveMap(ed) ==
    IF LoadingState_active(ed.loading_state)
    THEN Done(ed, None)
    ELSE Done([ed EXCEPT !.loading_state = SavingMap],
              Some(Task_save_map(MapViewer_get_map_instant(ed.map_viewer))))

\* Mutant: a failed save clears the modified flag as well.
Update_MapSaved_clearing(ed, potential_error) ==
    IF potential_error = None
    THEN Done([ed EXCEPT !.loading_state = Inactive, !.map_viewer.modified = FALSE], None)
    ELSE Done([ed EXCEPT !.loading_state = Error, !.map_viewer.modified = FALSE],
              Some(Task_error))

Update_MapSaved(ed, potential_error) ==
    IF potential_error = None
    THEN Done([ed EXCEPT !.loading_state = Inactive, !.map_viewer.modified = FALSE], None)
    ELSE Done([ed EXCEPT !.loading_state = Error], Some(Task_error))

Update_OpenTiles(ed) ==
    IF LoadingState_active(ed.loading_state)
    THEN Done(ed, None)
    ELSE Done([ed EXCEPT !.loading_state = LoadingTiles],
              Some(Task_open_tiles(ed.tiles_file # None)))

\* Mutant: the selection is reset before the file is parsed.
Update_TilesOpened_resetting(ed, new_tiles) ==
    LET e1 == [ed EXCEPT !.loading_state = Inactive]
    IN  IF new_tiles = None
        THEN Done(e1, None)
        ELSE IF new_tiles[1].parsed # None
        THEN Done([e1 EXCEPT !.tiles_file = new_tiles,
                             !.tiles = new_tiles[1].parsed,
                             !.tile_selector = TileSelector_reset(@),
                             !.map_viewer = MapViewer_refresh(@)], None)
        ELSE Done([e1 EXCEPT !.loading_state = Error,
                             !.tile_selector = TileSelector_reset(@)], Some(Task_error))

Update_TilesOpened(ed, new_tiles) ==
    LET e1 == [ed EXCEPT !.loading_state = Inactive]
    IN  IF new_tiles = None
        THEN Done(e1, None)
        ELSE IF new_tiles[1].parsed # None
        THEN Done([e1 EXCEPT !.tiles_file = new_tiles,
                             !.tiles = new_tiles[1].parsed,
                             !.tile_selector = TileSelector_reset(@),
                             !.map_viewer = MapViewer_refresh(@)], None)
        ELSE Done([e1 EXCEPT !.loading_state = Error], Some(Task_error))

Update_TileSelected(ed, i) ==
    Done([ed EXCEPT !.tile_selector = TileSelector_select(@, ed.tiles, i)], None)

Update_TileUnSelected(ed) ==
    Done([ed EXCEPT !.tile_selector = TileSelector_unselect(@)], None)

\* Mutant: with nothing selected the cell is cleared.
Update_PaintTile_erasing(ed, x, y) ==
    LET selected == TileSelector_get_selected(ed.tile_selector)
        value == IF selected = None THEN None ELSE Some(Tile_new(selected[1], FALSE, FALSE))
        mv == MapViewer_set_tile(ed.map_viewer, x, y, value)
    IN  IF mv.ok THEN Done([ed EXCEPT !.map_viewer = mv.v], None) ELSE Panic

\* The value is computed first (it reads the cell when nothing is selected),
\* then handed to set_tile.
Update_PaintTile(ed, x, y) ==
    LET selected == TileSelector_get_selected(ed.tile_selector)
        current == MapViewer_get_tile(ed.map_viewer, x, y, LayerBackground)
        value == IF selected = None THEN current ELSE Ok(Some(Tile_new(selected[1], FALSE, FALSE)))
        mv == IF value.ok THEN MapViewer_set_tile(ed.map_viewer, x, y, value.v) ELSE Panic
    IN  IF mv.ok THEN Done([ed EXCEPT !.map_viewer = mv.v], None) ELSE Panic

\* Mutant: the cell is cleared on the Foreground.
Update_ClearTile_foreground(ed, x, y) ==
    LET m == TileMap_set_tile(ed.map_viewer.map, x, y, None, LayerForeground)
    IN  IF m.ok
        THEN Done([ed EXCEPT !.map_viewer.map = m.v, !.map_viewer.modified = TRUE,
                             !.map_viewer.cache = None,
                             !.map_viewer.touched = @ \cup {<<x, y>>}], None)
        ELSE Panic

Update_ClearTile(ed, x, y) ==
    LET mv == MapViewer_set_tile(ed.map_viewer, x, y, None)
    IN  IF mv.ok THEN Done([ed EXCEPT !.map_viewer = mv.v], None) ELSE Panic

\* The arms of update for the messages the canvas emits but main.rs does not
\* list: the rectangle is filled by fill_rect, the two notifications change
\* nothing, and the tool is the one chosen.
Update_PaintRect(ed, x, y, width, height) ==
    LET mv == MapViewer_fill_rect(ed.map_viewer, x, y, width, height)
    IN  IF mv.ok THEN Done([ed EXCEPT !.map_viewer = mv.v], None) ELSE Panic

Update_RectStarted(ed) == Done(ed, None)

Update_Redraw(ed) == Done(ed, None)

Update_ToolChanged(ed, tool) == Done([ed EXCEPT !.map_viewer.tool = tool], None)

\* TilemapEditor::update.  A message is a tuple <<name, arguments>>.
Update(ed, message, checks) ==
    IF LoadingState_is_error(ed.loading_state)
    THEN IF message[1] = "ErrorClosed"
         THEN Done([ed EXCEPT !.loading_state = Inactive], None)
         ELSE Done(ed, None)
    ELSE CASE message[1] = "ErrorClosed" -> Done([ed EXCEPT !.loading_state = Inactive], None)
           [] message[1] = "NewMap" -> Update_NewMap(ed)
           [] message[1] = "CreateNewMap" -> Update_CreateNewMap(ed, message[2])
           [] message[1] = "OpenMap" -> Update_OpenMap(ed)
           [] message[1] = "MapOpened" -> Update_MapOpened(ed, message[2], checks)
           [] message[1] = "SaveMap" -> Update_SaveMap(ed)
           [] message[1] = "MapSaved" -> Update_MapSaved(ed, message[2])
           [] message[1] = "OpenTiles" -> Update_OpenTiles(ed)
           [] message[1] = "TilesOpened" -> Update_TilesOpened(ed, message[2])
           [] message[1] = "TileSelected" -> Update_TileSelected(ed, message[2])
           [] message[1] = "TileUnSelected" -> Update_TileUnSelected(ed)
           [] message[1] = "PaintTile" -> Update_PaintTile(ed, message[2], message[3])
           [] message[1] = "ClearTile" -> Update_ClearTile(ed, message[2], message[3])
           [] message[1] = "PaintRect" ->
                 Update_PaintRect(ed, message[2], message[3], message[4], message[5])
           [] message[1] = "RectStarted" -> Update_RectStarted(ed)
           [] message[1] = "Redraw" -> Update_Redraw(ed)
           [] message[1] = "ToolChanged" -> Update_ToolChanged(ed, message[2])

\* ---------------------------------------------- the TileMap as a library
\* A client that builds one TileMap and calls its public operations.
VARIABLES
    g,                \* the TileMap
    gpanic,           \* a call on g has panicked
    gop,              \* history: the last call made on g, <<name, arguments>>
    nops,             \* number of calls made on g
    storage,          \* Option<TileMapStorage>: the last record encoded
    overflow_checks,  \* the build panics on integer overflow
    dropped           \* history: cells that held a tile when a resize put them
                      \* out of bounds, and were not written since

gridVars == <<g, gpanic, gop, nops, storage, dropped>>

\* The running editor.
VARIABLES
    editor,           \* the TilemapEditor
    viewer_state,     \* the ViewerState of the map canvas
    tasks,            \* bag of the futures in flight
    panicked,         \* the program has panicked
    last,             \* history: the last input taken up and the message it led to
    nevents,          \* number of user inputs so far
    held,             \* history: the mouse buttons physically down
    saved             \* history: the map last written by a save, loaded or created

editorVars == <<editor, viewer_state, tasks, panicked, last, nevents, held, saved>>

vars == <<gridVars, editorVars, overflow_checks>>

\* The editor is not running while the TileMap is exercised on its own, and
\* the other way round.
EditorIdle ==
    /\ editor = None
    /\ viewer_state = None
    /\ tasks = EmptyBag
    /\ panicked = FALSE
    /\ last = None
    /\ nevents = 0
    /\ held = {}
    /\ saved = None

GridIdle ==
    /\ g = None
    /\ gpanic = FALSE
    /\ gop = None
    /\ nops = 0
    /\ storage = None
    /\ dropped = {}

T1 == Tile_new(5, TRUE, FALSE)
T2 == Tile_new(1, FALSE, FALSE)
GridValues == {None, Some(T1), Some(T2)}
Dims == 1..MaxDim
\* Coordinates tried by the client: one past the largest dimension included.
Coords == 0..MaxDim

InRange(m, x, y) ==
    /\ x < TileMap_get_dimensions(m)[1]
    /\ y < TileMap_get_dimensions(m)[2]

\* Cell (x, y) reads as a pair with a tile on at least one layer.
HoldsTile(m, x, y) ==
    /\ TileMap_get_tile(m, x, y).ok
    /\ TileMap_get_tile(m, x, y).v # <<None, None>>

GridInit ==
    /\ \E width \in Dims, height \in Dims : g = TileMap_new(width, height)
    /\ gpanic = FALSE
    /\ gop = <<"new">>
    /\ nops = 0
    /\ storage = None
    /\ overflow_checks \in BOOLEAN
    /\ dropped = {}
    /\ EditorIdle

GridCall(call) ==
    /\ ~gpanic
    /\ nops < MaxOps
    /\ nops' = nops + 1
    /\ gop' = call
    /\ UNCHANGED <<overflow_checks, editorVars>>

G_set_tile(x, y, value, layer) ==
    /\ GridCall(<<"set_tile", x, y, value, layer>>)
    /\ LET r == TileMap_set_tile(g, x, y, value, layer)
       IN  IF r.ok THEN g' = r.v /\ gpanic' = FALSE /\ dropped' = dropped \ {<<x, y>>}
                   ELSE g' = g /\ gpanic' = TRUE /\ dropped' = dropped
    /\ UNCHANGED storage

G_resize(new_width, new_height) ==
    /\ GridCall(<<"resize", new_width, new_height>>)
    /\ g' = TileMap_resize(g, new_width, new_height)
    /\ dropped' = dropped \cup
          {c \in Coords \X Coords :
              /\ InRange(g, c[1], c[2])
              /\ HoldsTile(g, c[1], c[2])
              /\ ~(c[1] < new_width /\ c[2] < new_height)}
    /\ UNCHANGED <<gpanic, storage>>

G_encode ==
    /\ GridCall(<<"encode">>)
    /\ LET r == Encode(g, overflow_checks)
       IN  IF r.ok THEN storage' = Some(r.v) /\ gpanic' = FALSE
                   ELSE storage' = storage /\ gpanic' = TRUE
    /\ UNCHANGED <<g, dropped>>

G_decode ==
    /\ GridCall(<<"decode">>)
    /\ storage # None
    /\ LET r == Decode(storage[1], overflow_checks)
       IN  IF r.ok THEN g' = r.v /\ gpanic' = FALSE /\ dropped' = {}
                   ELSE g' = g /\ gpanic' = TRUE /\ dropped' = dropped
    /\ UNCHANGED storage

SetTileStep ==
    \E x \in Coords, y \in Coords, value \in GridValues, layer \in Layer_ALL :
        G_set_tile(x, y, value, layer)

ResizeStep == \E new_width \in Dims, new_height \in Dims : G_resize(new_width, new_height)

\* new and set_tile only.
NextNew == SetTileStep

SpecNew == GridInit /\ [][NextNew]_vars

\* new, set_tile, resize and the codec.
NextGrid ==
    \/ SetTileStep
    \/ ResizeStep
    \/ G_encode
    \/ G_decode

SpecGrid == GridInit /\ [][NextGrid]_vars

\* ------------------------------------------------------ the running editor
\* Files the dialogs can return.
Rec_1x1 ==
    [width |-> 1, height |-> 1,
     background |-> [tiles |-> <<Some(T1)>>], foreground |-> [tiles |-> <<None>>]]
Rec_2x2 ==
    [width |-> 2, height |-> 2,
     background |-> [tiles |-> <<Some(T2), None, None, Some(T1)>>],
     foreground |-> [tiles |-> <<None, Some(T2), None, None>>]]
\* Malformed records: a sequence shorter or longer than width * height.
Rec_short_bg ==
    [width |-> 2, height |-> 1,
     background |-> [tiles |-> <<Some(T1)>>], foreground |-> [tiles |-> <<None, None>>]]
Rec_short_fg ==
    [width |-> 1, height |-> 1,
     background |-> [tiles |-> <<Some(T1)>>], foreground |-> [tiles |-> <<>>]]
Rec_long_bg ==
    [width |-> 1, height |-> 1,
     background |-> [tiles |-> <<Some(T2), Some(T1)>>], foreground |-> [tiles |-> <<None>>]]
Rec_long_fg ==
    [width |-> 1, height |-> 1,
     background |-> [tiles |-> <<None>>], foreground |-> [tiles |-> <<Some(T2), None, None>>]]

WellFormedRecords == {Rec_1x1, Rec_2x2}
MalformedRecords == {Rec_short_bg, Rec_short_fg, Rec_long_bg, Rec_long_fg}

MapFiles ==
    {MapFile(FALSE, None), MapFile(TRUE, None)}
        \cup {MapFile(TRUE, Some(r)) : r \in WellFormedRecords \cup MalformedRecords}

TileFiles ==
    {TileFile("bad.ase", None),
     TileFile("one.ase", Some(AsepriteFile(1))),
     TileFile("two.ase", Some(AsepriteFile(2)))}

Indices == 0..MaxIndex
Buttons == {ButtonLeft, ButtonRight, ButtonMiddle}
Events == {EvReleased, EvMoved, EvOther} \cup {EvPressed(b) : b \in Buttons}

\* Where the pointer can be: outside the canvas, or over a cell of the map as
\* it is displayed (the canvas is as large as the map).
Cursors(map) ==
    {None} \cup
    {Some(<<x, y>>) : x \in 0..Min(TileMap_get_dimensions(map)[1] - 1, MaxCursor),
                      y \in 0..Min(TileMap_get_dimensions(map)[2] - 1, MaxCursor)}

NoEvent == <<"-">>
History(event, cursor, message, note) ==
    [event |-> event, cursor |-> cursor, message |-> message, note |-> note]

Init ==
    /\ editor = TilemapEditor_new
    /\ viewer_state = ViewerState_default
    /\ tasks = EmptyBag
    /\ panicked = FALSE
    /\ last = History(NoEvent, None, None, "new")
    /\ nevents = 0
    /\ held = {}
    /\ saved = MapViewer_get_map_instant(TilemapEditor_new.map_viewer)
    /\ overflow_checks \in BOOLEAN
    /\ GridIdle

\* update is run on `message`; the command it returns joins the futures `rest`.
Deliver(message, rest) ==
    LET r == Update([editor EXCEPT !.map_viewer.touched = {}], message, overflow_checks)
    IN  IF r.ok
        THEN /\ editor' = r.v.ed
             /\ tasks' = IF r.v.cmd = None THEN rest ELSE rest (+) SetToBag({r.v.cmd[1]})
             /\ panicked' = FALSE
        ELSE /\ editor' = editor
             /\ tasks' = rest
             /\ panicked' = TRUE

\* A click on a button or on the palette, or a tool choice: one message.
UserMessage(message) ==
    /\ ~panicked
    /\ nevents < MaxEvents
    /\ nevents' = nevents + 1
    /\ Deliver(message, tasks)
    /\ last' = History(NoEvent, None, Some(message), "ui")
    /\ UNCHANGED <<viewer_state, held, saved, overflow_checks, gridVars>>

ClickNew == UserMessage(<<"NewMap">>)
ClickOpen == UserMessage(<<"OpenMap">>)
ClickSave == UserMessage(<<"SaveMap">>)
ClickOpenTiles == UserMessage(<<"OpenTiles">>)
ClickTile == \E i \in Indices : UserMessage(<<"TileSelected", i>>)
RightClickTile == UserMessage(<<"TileUnSelected">>)
ChooseTool == \E tool \in Tools : UserMessage(<<"ToolChanged", tool>>)

\* The buttons down after the event: a press puts its button down, a release
\* (the code does not look at its button) lets one of the buttons up.
Held(event) ==
    IF event[1] = "ButtonPressed" THEN {held \cup {event[2]}}
    ELSE IF event[1] = "ButtonReleased" /\ held # {} THEN {held \ {b} : b \in held}
    ELSE {held}

\* A mouse or keyboard event reaches the map canvas; the message it emits, if
\* any, is handled by update at once.
CanvasEvent(event, cursor) ==
    /\ ~panicked
    /\ nevents < MaxEvents
    /\ nevents' = nevents + 1
    /\ LET r == MapViewer_update(editor.map_viewer, viewer_state, event, cursor)
       IN  /\ viewer_state' = r.state
           /\ last' = History(event, cursor, r.message, "canvas")
           /\ IF r.message = None
              THEN UNCHANGED <<editor, tasks, panicked>>
              ELSE Deliver(r.message[1], tasks)
    /\ held' \in Held(event)
    /\ UNCHANGED <<saved, overflow_checks, gridVars>>

Pointer ==
    \E event \in Events, cursor \in Cursors(editor.map_viewer.map) : CanvasEvent(event, cursor)

\* update calls set_entire_map on this message: a CreateNewMap(true), or a
\* MapOpened with a file that can be read, outside the Error state.
SetsEntireMap(ed, message) ==
    /\ ~LoadingState_is_error(ed.loading_state)
    /\ \/ message[1] = "CreateNewMap" /\ message[2]
       \/ message[1] = "MapOpened" /\ message[2] # None /\ message[2][1].readable

\* A future completes and its message is handled.
Complete(task, message, note) ==
    /\ ~panicked
    /\ BagIn(task, tasks)
    /\ Deliver(message, tasks (-) SetToBag({task}))
    /\ last' = History(NoEvent, None, Some(message), note)
    /\ saved' = IF note = "written" THEN task.param
                ELSE IF SetsEntireMap(editor, message) /\ ~panicked' THEN editor'.map_viewer.map
                ELSE saved
    /\ UNCHANGED <<viewer_state, nevents, held, overflow_checks, gridVars>>

\* new_map: true unless the map is modified and the user keeps it.
NewMapAnswered ==
    \E task \in BagToSet(tasks), create \in BOOLEAN :
        /\ task.kind = "new_map"
        /\ (create \/ task.param)
        /\ Complete(task, <<"CreateNewMap", create>>, "task")

\* open_map: nothing when the user keeps the map or cancels, else the file.
OpenMapAnswered ==
    \E task \in BagToSet(tasks), file \in {None} \cup {Some(f) : f \in MapFiles} :
        /\ task.kind = "open_map"
        /\ Complete(task, <<"MapOpened", file>>, "task")

\* save_map: None when the dialog is cancelled and when the file is written,
\* the error text when the write fails.  The record is encoded before writing.
SaveMapAnswered ==
    \E task \in BagToSet(tasks) :
        /\ task.kind = "save_map"
        /\ LET encoded == Encode_ok(task.param, overflow_checks)
           IN  \E outcome \in {"cancelled", "written", "failed"} :
                 IF outcome # "cancelled" /\ ~encoded
                 THEN /\ ~panicked
                      /\ panicked' = TRUE
                      /\ tasks' = tasks (-) SetToBag({task})
                      /\ last' = History(NoEvent, None, None, outcome)
                      /\ UNCHANGED <<editor, viewer_state, nevents, held, saved,
                                     overflow_checks, gridVars>>
                 ELSE Complete(task,
                               <<"MapSaved",
                                 IF outcome = "failed" THEN Some("io error") ELSE None>>,
                               outcome)

\* open_tiles: nothing when the user declines or cancels, else the file.
OpenTilesAnswered ==
    \E task \in BagToSet(tasks), file \in {None} \cup {Some(f) : f \in TileFiles} :
        /\ task.kind = "open_tiles"
        /\ Complete(task, <<"TilesOpened", file>>, "task")

\* The error dialog is closed.
ErrorAcknowledged ==
    \E task \in BagToSet(tasks) :
        /\ task.kind = "error"
        /\ Complete(task, <<"ErrorClosed">>, "task")

\* The canvas is drawn.
Draw ==
    /\ ~panicked
    /\ editor.map_viewer.cache = None
    /\ editor' = [editor EXCEPT !.map_viewer =
                     MapViewer_draw(@, editor.tiles, viewer_state)]
    /\ UNCHANGED <<viewer_state, tasks, panicked, last, nevents, held, saved,
                   overflow_checks, gridVars>>

Next ==
    \/ ClickNew
    \/ ClickOpen
    \/ ClickSave
    \/ ClickOpenTiles
    \/ ClickTile
    \/ RightClickTile
    \/ ChooseTool
    \/ Pointer
    \/ NewMapAnswered
    \/ OpenMapAnswered
    \/ SaveMapAnswered
    \/ OpenTilesAnswered
    \/ ErrorAcknowledged
    \/ Draw

Spec == Init /\ [][Next]_vars

\* The u16 arithmetic of the codec on wide maps.  TileMap::new takes any two
\* u16; the dimensions tried are 1, 2, the values around 2^8 and 2^15.  gop
\* records the expression and its result.
Byte == 256
WideDims == {1, 2, Byte - 1, Byte, Byte + 1, U16 \div 2}

InitWide ==
    /\ overflow_checks \in BOOLEAN
    /\ GridIdle
    /\ EditorIdle

\* (width * height) as usize, the capacity of the two sequences in encode.
Wide_capacity ==
    \E width \in WideDims, height \in WideDims :
        /\ ~gpanic
        /\ gop' = <<"capacity", width, height, Mul16(width, height, overflow_checks)>>
        /\ gpanic' = ~Mul16(width, height, overflow_checks).ok
        /\ UNCHANGED <<g, nops, storage, dropped, overflow_checks, editorVars>>

\* (x + y * width) as usize for a cell of a width x height map, in decode.
Wide_index ==
    \E width \in WideDims, height \in WideDims :
        \E x \in {0, width - 1}, y \in {0, height \div 2, height - 1} :
            /\ ~gpanic
            /\ gop' = <<"index", x, y, width, FlatIndex(x, y, width, overflow_checks)>>
            /\ gpanic' = ~FlatIndex(x, y, width, overflow_checks).ok
            /\ UNCHANGED <<g, nops, storage, dropped, overflow_checks, editorVars>>

NextWide ==
    \/ Wide_capacity
    \/ Wide_index

SpecWide == InitWide /\ [][NextWide]_vars

\* The running editor when every future that was started resolves and its
\* message is delivered, and every error dialog is closed.
Fairness ==
    /\ WF_vars(NewMapAnswered)
    /\ WF_vars(OpenMapAnswered)
    /\ WF_vars(SaveMapAnswered)
    /\ WF_vars(OpenTilesAnswered)
    /\ WF_vars(ErrorAcknowledged)

SpecLive == Spec /\ Fairness

\* The canvas alone: pointer events and redraws on a viewer whose public field
\* `tile` holds nothing or a tile of the loaded source, with any tool.
InitDraw ==
    /\ \E tile \in {None, Some(Tile_new(0, FALSE, FALSE))},
          tiles \in {None, Some(AsepriteFile(2))},
          tool \in Tools :
          editor = [TilemapEditor_new EXCEPT !.tiles = tiles,
                                             !.map_viewer.tile = tile,
                                             !.map_viewer.tool = tool]
    /\ viewer_state = ViewerState_default
    /\ tasks = EmptyBag
    /\ panicked = FALSE
    /\ last = History(NoEvent, None, None, "new")
    /\ nevents = 0
    /\ held = {}
    /\ saved = MapViewer_get_map_instant(TilemapEditor_new.map_viewer)
    /\ overflow_checks \in BOOLEAN
    /\ GridIdle

NextDraw ==
    \/ Pointer
    \/ Draw

SpecDraw == InitDraw /\ [][NextDraw]_vars

\* ------------------------------------------------------ claims on the grid
LayerIndex(layer) == IF layer = LayerBackground THEN 1 ELSE 2
OtherIndex(layer) == IF layer = LayerBackground THEN 2 ELSE 1

\* C1: on a grid made by new(w, h) and set_tile calls only, a set_tile(x, y, v,
\* layer) with x < w and y < h does not panic, and get_tile(x, y) then returns v
\* on that layer and, on the other layer, what get_tile(x, y) returned before.
C1_SetThenGet ==
    [][(gop'[1] = "set_tile" /\ InRange(g, gop'[2], gop'[3])) =>
          LET x == gop'[2]
              y == gop'[3]
              value == gop'[4]
              layer == gop'[5]
          IN  /\ ~gpanic'
              /\ TileMap_get_tile(g, x, y).ok
              /\ TileMap_get_tile(g', x, y).ok
              /\ TileMap_get_tile(g', x, y).v[LayerIndex(layer)] = value
              /\ TileMap_get_tile(g', x, y).v[OtherIndex(layer)]
                   = TileMap_get_tile(g, x, y).v[OtherIndex(layer)]]_vars

\* A non-square grid where set_tile has put a tile on one layer of a cell whose
\* other layer already held one.
C1_Witness ==
    /\ gop = <<"set_tile", 0, 1, Some(T1), LayerBackground>>
    /\ ~gpanic
    /\ TileMap_get_dimensions(g) = <<1, 2>>
    /\ TileMap_get_tile(g, 0, 1) = Ok(<<Some(T1), Some(T2)>>)

C3_ShrinkIsLossy ==
    ~gpanic =>
        \A c \in dropped :
            InRange(g, c[1], c[2]) => TileMap_get_tile(g, c[1], c[2]) = Ok(<<None, None>>)

\* C4: both layers have the dimensions of the map, and get_tile(x, y) and
\* set_tile(x, y, ..) succeed exactly when x < width and y < height.
C4_AccessExactlyInBounds ==
    ~gpanic =>
        /\ g.background.width = g.foreground.width
        /\ g.background.height = g.foreground.height
        /\ \A x \in Coords, y \in Coords :
              /\ TileMap_get_tile(g, x, y).ok <=> InRange(g, x, y)
              /\ \A layer \in Layer_ALL :
                    TileMap_set_tile(g, x, y, None, layer).ok <=> InRange(g, x, y)

\* Same dimensions and, cell for cell on both layers, the same value.
SameGrid(a, b) ==
    /\ TileMap_get_dimensions(a) = TileMap_get_dimensions(b)
    /\ \A x \in 0..(TileMap_get_dimensions(b)[1] - 1),
          y \in 0..(TileMap_get_dimensions(b)[2] - 1) :
            /\ TileMap_get_tile(b, x, y).ok
            /\ TileMap_get_tile(a, x, y) = TileMap_get_tile(b, x, y)

\* C5: encoding any grid succeeds, and decoding the record it produced yields
\* a grid with the same dimensions and the same value in every cell of both
\* layers.
C5_RoundTrip ==
    [][gop'[1] = "encode" =>
          /\ ~gpanic'
          /\ storage' # None
          /\ Decode(storage'[1], overflow_checks).ok
          /\ SameGrid(Decode(storage'[1], overflow_checks).v, g)]_vars

\* ---------------------------------------------------- claims on the editor
\* The message update has just been run on, None when the input led to none.
Handled == last.message
\* update took the message up in a state other than Error, where it discards it.
Dispatched == ~LoadingState_is_error(editor.loading_state)

BackgroundOf(ed, x, y) == MapViewer_get_tile(ed.map_viewer, x, y, LayerBackground)
ForegroundOf(ed, x, y) == MapViewer_get_tile(ed.map_viewer, x, y, LayerForeground)

\* A record whose background or foreground length is not width * height.
Malformed(st) ==
    \/ Len(st.background.tiles) # st.width * st.height
    \/ Len(st.foreground.tiles) # st.width * st.height

\* C6: when the file handed to MapOpened holds a record with a background or a
\* foreground sequence shorter or longer than width * height, the load fails
\* into the Error state and the map of the editor stays as it was.
C6_MalformedRejected ==
    [][(/\ Dispatched
        /\ Handled' # None
        /\ Handled'[1][1] = "MapOpened"
        /\ Handled'[1][2] # None
        /\ Handled'[1][2][1].readable
        /\ Handled'[1][2][1].content # None
        /\ Malformed(Handled'[1][2][1].content[1])) =>
          /\ ~panicked'
          /\ editor'.loading_state = Error
          /\ editor'.map_viewer.map = editor.map_viewer.map]_vars

\* C7: PaintTile(x, y) with nothing selected leaves the whole map as it was;
\* with tile i selected (and the message reaching its arm of update) the
\* Background of (x, y) becomes Tile{i, false, false}.
C7_PassivePaint ==
    [][(Handled' # None /\ Handled'[1][1] = "PaintTile") =>
          LET x == Handled'[1][2]
              y == Handled'[1][3]
              selected == editor.tile_selector.selected
          IN  IF selected = None
              THEN editor'.map_viewer.map = editor.map_viewer.map
              ELSE Dispatched =>
                     /\ ~panicked'
                     /\ BackgroundOf(editor', x, y)
                          = Ok(Some(Tile_new(selected[1], FALSE, FALSE)))]_vars

\* PaintTile has run with nothing selected on a cell that holds a tile.
C7_Witness ==
    /\ Handled = Some(<<"PaintTile", 0, 0>>)
    /\ editor.tile_selector.selected = None
    /\ editor.map_viewer.modified
    /\ BackgroundOf(editor, 0, 0) = Ok(Some(T1))

\* The cells of the rectangle PaintRect(ax, ay, w, h) is said to cover.
RectCells(ax, ay, w, h) ==
    {<<x, y>> : x \in Min(ax, ax + w)..(Min(ax, ax + w) + Abs(w) - 1),
                y \in Min(ay, ay + h)..(Min(ay, ay + h) + Abs(h) - 1)}

\* The two maps agree on every cell outside `cells`, and on the Foreground.
SameOutside(m1, m2, cells) ==
    /\ m1.foreground = m2.foreground
    /\ m1.background.width = m2.background.width
    /\ m1.background.height = m2.background.height
    /\ m1.background.tiles.lens = m2.background.tiles.lens
    /\ \A c \in ((DOMAIN m1.background.tiles.at) \cup (DOMAIN m2.background.tiles.at)) \ cells :
          Tiles_get(m1.background.tiles, c[1], c[2]) = Tiles_get(m2.background.tiles, c[1], c[2])

\* C8: with tool Rect a left press on cell (ax, ay) starts a rectangle anchored
\* there with pending size (1, 1); while it is pending a move over cell (px, py)
\* makes the pending size (len(px, ax), len(py, ay)) and nothing else changes
\* the anchor or the size; a release emits PaintRect(ax, ay, w, h) with the
\* pending size; and PaintRect(ax, ay, w, h) passes to set_tile exactly the
\* cells x in [min(ax, ax + w), +|w|), y in [min(ay, ay + h), +|h|), leaving
\* every other cell and the Foreground as they were.
C8_RectGesture ==
    [][/\ (/\ last'.event = EvPressed(ButtonLeft)
           /\ last'.cursor # None
           /\ editor.map_viewer.tool = ToolRect) =>
             /\ viewer_state'.interaction =
                   InteractionRectangle(last'.cursor[1][1], last'.cursor[1][2])
             /\ viewer_state'.rect_dimensions = <<1, 1>>
             /\ length(last'.cursor[1][1], last'.cursor[1][1]) = 1
       /\ (/\ viewer_state.interaction[1] = "Rectangle"
           /\ last'.event = EvMoved
           /\ last'.cursor # None) =>
             /\ viewer_state'.interaction = viewer_state.interaction
             /\ viewer_state'.rect_dimensions =
                   <<(last'.cursor[1][1] - viewer_state.interaction[2])
                        + (IF last'.cursor[1][1] - viewer_state.interaction[2] >= 0 THEN 1 ELSE 0),
                     (last'.cursor[1][2] - viewer_state.interaction[3])
                        + (IF last'.cursor[1][2] - viewer_state.interaction[3] >= 0 THEN 1 ELSE 0)>>
       /\ (/\ viewer_state.interaction[1] = "Rectangle"
           /\ ~(last'.event = EvMoved /\ last'.cursor # None)
           /\ ~(last'.event \in {EvReleased, EvPressed(ButtonLeft), EvPressed(ButtonRight)}
                  /\ last'.cursor # None)) =>
             viewer_state' = viewer_state
       /\ (/\ viewer_state.interaction[1] = "Rectangle"
           /\ last'.event = EvReleased
           /\ last'.cursor # None) =>
             Handled' = Some(<<"PaintRect", viewer_state.interaction[2],
                               viewer_state.interaction[3],
                               viewer_state.rect_dimensions[1],
                               viewer_state.rect_dimensions[2]>>)
       /\ (/\ Handled' # None
           /\ Handled'[1][1] = "PaintRect"
           /\ Dispatched
           /\ ~panicked') =>
             /\ editor'.map_viewer.touched =
                   RectCells(Handled'[1][2], Handled'[1][3], Handled'[1][4], Handled'[1][5])
             /\ SameOutside(editor'.map_viewer.map, editor.map_viewer.map,
                            editor'.map_viewer.touched)]_vars

\* A rectangle pressed on (1, 1), dragged to (0, 0) and released: PaintRect(1, 1,
\* -1, -1) has filled cell (0, 0) alone, row and column 1 excluded.
C8_Witness ==
    /\ last.event = EvReleased
    /\ Handled = Some(<<"PaintRect", 1, 1, -1, -1>>)
    /\ ~panicked
    /\ editor.map_viewer.touched = {<<0, 0>>}
    /\ editor.map_viewer.modified

\* C9: PaintRect with nothing selected leaves every Background cell with the
\* value it had.
C9_RectPassive ==
    [][(/\ Handled' # None
        /\ Handled'[1][1] = "PaintRect"
        /\ editor.tile_selector.selected = None) =>
          editor'.map_viewer.map.background = editor.map_viewer.map.background]_vars

\* C10: TileSelected(i) with no tile source loaded or i >= frame_count() leaves
\* the selection as it was; with i < frame_count() (and the message reaching
\* select) the selection becomes i.
C10_SelectBounds ==
    [][(Handled' # None /\ Handled'[1][1] = "TileSelected") =>
          LET i == Handled'[1][2]
          IN  IF editor.tiles = None \/ i >= editor.tiles[1].num_frames
              THEN editor'.tile_selector.selected = editor.tile_selector.selected
              ELSE Dispatched => editor'.tile_selector.selected = Some(i)]_vars

\* Index 2 was clicked on a source of 2 frames while 1 was selected: 1 stays.
C10_Witness ==
    /\ Handled = Some(<<"TileSelected", 2>>)
    /\ editor.tiles = Some(AsepriteFile(2))
    /\ editor.tile_selector.selected = Some(1)

\* This step is an input taken up (a click, a canvas event or a completion),
\* not a redraw: redraws leave the count of inputs and the futures alone.
Input == nevents' # nevents \/ tasks' # tasks
\* This step ran update on a message of this name.
Takes(name) == Input /\ Handled' # None /\ Handled'[1][1] = name

\* The four requests of the menu bar and the tiles column.
Requests == {"OpenTiles", "OpenMap", "SaveMap", "NewMap"}
\* The operation states of a long operation in progress.
Busy == {NewMap, OpeningMap, SavingMap, LoadingTiles}

\* The number of futures of long operations in flight (error dialogs left out).
NumLongTasks == BagCardinality(tasks) - CopiesIn(Task_error, tasks)

\* C11: a request open-tiles, open-map, save-map or new-map made while the
\* operation state is NewMap, OpeningMap, SavingMap or LoadingTiles leaves the
\* operation state as it was and starts no task.
C11_OperationLatch ==
    [][(/\ editor.loading_state \in Busy
        /\ last'.note = "ui"
        /\ \E r \in Requests : Takes(r)) =>
          /\ editor'.loading_state = editor.loading_state
          /\ tasks' = tasks]_vars

\* What the Error state is said to protect: the grid, the modified flag, the
\* selection, the tile source and its file.
Kept(e1, e2) ==
    /\ e2.map_viewer.map = e1.map_viewer.map
    /\ e2.map_viewer.modified = e1.map_viewer.modified
    /\ e2.tile_selector.selected = e1.tile_selector.selected
    /\ e2.tiles = e1.tiles
    /\ e2.tiles_file = e1.tiles_file

\* C12: in the Error state a step that takes up ErrorClosed leads to Inactive;
\* every other step leaves the operation state Error, the grid, the modified
\* flag, the selection and the tile source as they were, and starts no task.
C12_ErrorDiscards ==
    [][editor.loading_state = Error =>
          /\ Kept(editor, editor')
          /\ IF Takes("ErrorClosed")
             THEN editor'.loading_state = Inactive
             ELSE /\ editor'.loading_state = Error
                  /\ \A t \in BagToSet(tasks') : CopiesIn(t, tasks') <= CopiesIn(t, tasks)]_vars

\* In the Error state a left press with the Pen emitted PaintTile(0, 0) and
\* it was discarded: the map is neither painted nor marked modified.
C12_Witness ==
    /\ editor.loading_state = Error
    /\ last.event = EvPressed(ButtonLeft)
    /\ Handled = Some(<<"PaintTile", 0, 0>>)
    /\ editor.tile_selector.selected = Some(0)
    /\ BackgroundOf(editor, 0, 0) = Ok(None)
    /\ ~editor.map_viewer.modified

\* C13: the tile source (and its file) changes only at a step that starts in
\* the operation state LoadingTiles.
C13_SwapOnlyWhileLoading ==
    [][(editor'.tiles # editor.tiles \/ editor'.tiles_file # editor.tiles_file) =>
          editor.loading_state = LoadingTiles]_vars

\* C14: at most one future of a long operation is in flight.
C14_OneLongTask == NumLongTasks <= 1

\* A save that wrote the file has just completed.
SaveWritten == Takes("MapSaved") /\ last'.note = "written"
\* The grid has just been replaced by a new map or by a loaded one.
GridReplaced ==
    \/ Takes("CreateNewMap") /\ Handled'[1][2]
    \/ /\ Takes("MapOpened")
       /\ Handled'[1][2] # None
       /\ Handled'[1][2][1].readable

\* C15: a step that hands a cell to set_tile leaves the modified flag true, and
\* the flag goes from true to false only at a step where a save that wrote the
\* file completes or where the grid is replaced by a new or a loaded map (so
\* not when the dialog of the save was cancelled).
C15_ModifiedFlag ==
    [][/\ (Input /\ ~panicked' /\ editor'.map_viewer.touched # {}) =>
             editor'.map_viewer.modified
       /\ (editor.map_viewer.modified /\ ~editor'.map_viewer.modified) =>
             (SaveWritten \/ GridReplaced)]_vars

\* C16: when MapSaved arrives with a write error the operation state becomes
\* Error, an error dialog is started, and the modified flag, the grid, the
\* selection and the tile source are what they were.
C16_SaveFailureKeeps ==
    [][(Takes("MapSaved") /\ Handled'[1][2] # None) =>
          /\ ~panicked'
          /\ editor'.loading_state = Error
          /\ Kept(editor, editor')
          /\ (editor.loading_state # Error => CopiesIn(Task_error, tasks') = CopiesIn(Task_error, tasks) + 1)]_vars

\* A save of a modified map failed: Error, and the map is still modified.
C16_Witness ==
    /\ last.note = "failed"
    /\ Handled = Some(<<"MapSaved", Some("io error")>>)
    /\ editor.loading_state = Error
    /\ editor.map_viewer.modified
    /\ BagIn(Task_error, tasks)

\* C17: when TilesOpened arrives with a file that does not parse the operation
\* state becomes Error and the grid, the modified flag, the selection, the
\* tile source and its file are what they were.
C17_TilesFailureKeeps ==
    [][(/\ Takes("TilesOpened")
        /\ Handled'[1][2] # None
        /\ Handled'[1][2][1].parsed = None) =>
          /\ ~panicked'
          /\ editor'.loading_state = Error
          /\ Kept(editor, editor')]_vars

\* With two.ase loaded and 1 selected, a second load returned a file that
\* does not parse: Error, two.ase and the selection are still there.
C17_Witness ==
    /\ Handled = Some(<<"TilesOpened", Some(TileFile("bad.ase", None))>>)
    /\ editor.loading_state = Error
    /\ editor.tiles = Some(AsepriteFile(2))
    /\ editor.tiles_file = Some(TileFile("two.ase", Some(AsepriteFile(2))))
    /\ editor.tile_selector.selected = Some(1)

\* C18: every PaintTile, ClearTile and PaintRect the canvas emits is applied
\* without a panic and hands to set_tile only cells inside the dimensions of
\* the map held when it is applied.
C18_PointerInRange ==
    [][(/\ last'.note = "canvas"
        /\ editor.loading_state # Error
        /\ \E name \in {"PaintTile", "ClearTile", "PaintRect"} : Takes(name)) =>
          /\ ~panicked'
          /\ \A c \in editor'.map_viewer.touched :
                InRange(editor.map_viewer.map, c[1], c[2])]_vars

\* C19: the interaction starts as None; after every button release, wherever
\* the pointer is, it is None, and a release in Rectangle emits PaintRect.
C19_ReleaseIdles ==
    /\ viewer_state.interaction = InteractionNone
    /\ [][(Input /\ last'.note = "canvas" /\ last'.event = EvReleased) =>
             /\ viewer_state'.interaction = InteractionNone
             /\ (viewer_state.interaction[1] = "Rectangle" =>
                    (Handled' # None /\ Handled'[1][1] = "PaintRect"))]_vars

\* The record the last encode produced, as C20 describes it.
EncodedLayout(m, st) ==
    LET w == TileMap_get_dimensions(m)[1]
        h == TileMap_get_dimensions(m)[2]
    IN  /\ st.width = w
        /\ st.height = h
        /\ Len(st.background.tiles) = w * h
        /\ Len(st.foreground.tiles) = w * h
        /\ \A x \in 0..(w - 1), y \in 0..(h - 1) :
              /\ TileMap_get_tile(m, x, y).ok
              /\ st.background.tiles[x + y * w + 1] = TileMap_get_tile(m, x, y).v[1]
              /\ st.foreground.tiles[x + y * w + 1] = TileMap_get_tile(m, x, y).v[2]

\* C20: encoding any grid of size (w, h) yields a record with width w, height
\* h and two sequences of w * h entries, entry x + y * w being the value of the
\* layer at cell (x, y).
C20_EncodeLayout ==
    [][gop'[1] = "encode" =>
          /\ ~gpanic'
          /\ storage' # None
          /\ EncodedLayout(g, storage'[1])]_vars

\* C21: a left press with tool Rect, and every move while a rectangle is
\* pending, leave the grid (both layers) and the modified flag as they were; a
\* move changes the pending size only.
C21_PreviewTouchesNothing ==
    [][(/\ Input
        /\ last'.note = "canvas"
        /\ last'.cursor # None
        /\ \/ last'.event = EvPressed(ButtonLeft) /\ editor.map_viewer.tool = ToolRect
           \/ last'.event = EvMoved /\ viewer_state.interaction[1] = "Rectangle") =>
          /\ ~panicked'
          /\ editor'.map_viewer.map = editor.map_viewer.map
          /\ editor'.map_viewer.modified = editor.map_viewer.modified
          /\ editor'.map_viewer.touched = {}
          /\ (last'.event = EvMoved =>
                viewer_state'.interaction = viewer_state.interaction)]_vars

\* A rectangle anchored on (0, 0) was dragged to (1, 1): the pending size is
\* (2, 2) and the map is neither changed nor marked modified.
C21_Witness ==
    /\ last.event = EvMoved
    /\ viewer_state.interaction = InteractionRectangle(0, 0)
    /\ viewer_state.rect_dimensions = <<2, 2>>
    /\ ~editor.map_viewer.modified
    /\ editor.map_viewer.map = TileMap_new(DefaultSide, DefaultSide)

\* C22: a cache that is not cleared holds a frame rasterized from the current
\* map and the current tile source; a step that hands a cell to set_tile clears
\* the cache and leaves modified true, a step that replaces the map clears the
\* cache and leaves modified false, and a step that changes the tile source
\* clears the cache.
C22_CacheFresh ==
    /\ [](editor.map_viewer.cache # None =>
            /\ editor.map_viewer.cache[1].map = editor.map_viewer.map
            /\ editor.map_viewer.cache[1].tiles = editor.tiles)
    /\ [][/\ (Input /\ Handled' # None /\ ~panicked'
                /\ editor'.map_viewer.touched # {}) =>
                (editor'.map_viewer.cache = None /\ editor'.map_viewer.modified)
          /\ (Input /\ ~panicked' /\ Handled' # None /\ last'.note = "task"
                /\ SetsEntireMap(editor, Handled'[1])) =>
                (editor'.map_viewer.cache = None /\ ~editor'.map_viewer.modified)
          /\ (editor'.tiles # editor.tiles \/ editor'.tiles_file # editor.tiles_file) =>
                editor'.map_viewer.cache = None]_vars

\* The canvas was drawn after a tile was painted: the cache holds a frame of
\* the painted map and of the loaded source.
C22_Witness ==
    /\ editor.map_viewer.cache # None
    /\ editor.map_viewer.cache[1].map = editor.map_viewer.map
    /\ editor.map_viewer.modified
    /\ BackgroundOf(editor, 0, 0) = Ok(Some(Tile_new(0, FALSE, FALSE)))
    /\ editor.tiles # None

\* C24: PaintTile, ClearTile and PaintRect leave the Foreground as it was, and
\* ClearTile(x, y), when it reaches its arm, leaves Background (x, y) None.
C24_BackgroundOnly ==
    [][(\E name \in {"PaintTile", "ClearTile", "PaintRect"} : Takes(name)) =>
          /\ editor'.map_viewer.map.foreground = editor.map_viewer.map.foreground
          /\ (Takes("ClearTile") /\ Dispatched) =>
                /\ ~panicked'
                /\ BackgroundOf(editor', Handled'[1][2], Handled'[1][3]) = Ok(None)]_vars

\* On the loaded 2 x 2 map a right press cleared Background (0, 0); the
\* Foreground tile of (1, 0) and the Background tile of (1, 1) are still there.
C24_Witness ==
    /\ Handled = Some(<<"ClearTile", 0, 0>>)
    /\ TileMap_get_dimensions(editor.map_viewer.map) = <<2, 2>>
    /\ BackgroundOf(editor, 0, 0) = Ok(None)
    /\ BackgroundOf(editor, 1, 1) = Ok(Some(T1))
    /\ ForegroundOf(editor, 1, 0) = Ok(Some(T2))
    /\ editor.map_viewer.modified

\* C25: the selection is None or an index below the number of frames of the
\* loaded tile source; a TilesOpened that loads a source leaves it None, and
\* so does a TileUnSelected that reaches its arm.
C25_SelectionValid ==
    /\ [](editor.tile_selector.selected # None =>
            /\ editor.tiles # None
            /\ editor.tile_selector.selected[1] < editor.tiles[1].num_frames)
    /\ [][/\ (/\ Takes("TilesOpened")
              /\ Dispatched
              /\ Handled'[1][2] # None
              /\ Handled'[1][2][1].parsed # None) =>
                (editor'.tile_selector.selected = None
                   /\ editor'.tiles = Handled'[1][2][1].parsed)
          /\ (Takes("TileUnSelected") /\ Dispatched) =>
                editor'.tile_selector.selected = None]_vars

\* one.ase (1 frame) was loaded over two.ase while modified work was going on
\* with a tile of two.ase: the selection is gone.
C25_Witness ==
    /\ Handled = Some(<<"TilesOpened", Some(TileFile("one.ase", Some(AsepriteFile(1))))>>)
    /\ editor.tiles = Some(AsepriteFile(1))
    /\ editor.tile_selector.selected = None
    /\ BackgroundOf(editor, 0, 0) = Ok(Some(Tile_new(1, FALSE, FALSE)))

\* C26: a pointer move emits PaintTile or ClearTile only while some mouse
\* button is still down.
C26_MovePaintsOnlyWhileHeld ==
    [][(/\ Input
        /\ last'.note = "canvas"
        /\ last'.event = EvMoved
        /\ Handled' # None
        /\ Handled'[1][1] \in {"PaintTile", "ClearTile"}) => held' # {}]_vars

\* C27: a save that wrote the file and left modified false left the current
\* map equal to the map that was written.
C27_SavedIsCurrent ==
    [][(/\ Takes("MapSaved")
        /\ last'.note = "written"
        /\ ~editor'.map_viewer.modified) => editor'.map_viewer.map = saved']_vars

\* The cells fill_rect hands to set_tile for PaintRect(x, y, width, height).
FilledBy(mv, x, y, width, height) ==
    LET r == MapViewer_fill_rect([mv EXCEPT !.touched = {}], x, y, width, height)
    IN  IF r.ok THEN r.v.touched ELSE {}

\* C28: a rectangle pressed on A and released on B fills A and B, and the
\* same cells as the rectangle pressed on B and released on A.
C28_RectSymmetric ==
    [][(Takes("PaintRect") /\ Dispatched /\ ~panicked') =>
          LET ax == Handled'[1][2]
              ay == Handled'[1][3]
              w == Handled'[1][4]
              h == Handled'[1][5]
              bx == ax + w - (IF w > 0 THEN 1 ELSE 0)
              by == ay + h - (IF h > 0 THEN 1 ELSE 0)
          IN  /\ <<ax, ay>> \in editor'.map_viewer.touched
              /\ <<bx, by>> \in editor'.map_viewer.touched
              /\ editor'.map_viewer.touched =
                    FilledBy(editor.map_viewer, bx, by, length(ax, bx), length(ay, by))]_vars

\* C23: the cached frame never contains the rectangle preview.
C23_CacheHasNoPreview ==
    editor.map_viewer.cache # None => editor.map_viewer.cache[1].preview = {}

C30_NoWrap ==
    /\ (gop # None /\ gop[1] = "capacity") => gop[4] = Ok(gop[2] * gop[3])
    /\ (gop # None /\ gop[1] = "index") => gop[5] = Ok(gop[2] + gop[3] * gop[4])

====
